---- MODULE Spec2Model ----
(***************************************************************************)
(* A model of src/dashboard.py, the "API Command Center" page: one run of  *)
(* the script from load_data() to the Business Impact funnel.  The page is *)
(* a straight-line script, so the state is the script's variables and pc   *)
(* is the statement the run has reached.  The Trends, Tech and Report     *)
(* tabs only draw what df already holds and are left out.                  *)
(*                                                                         *)
(* Numbers with one decimal (Success_Rate, rate, Drop %) are kept in       *)
(* tenths: 96.9 is 969.  createdAt is kept in whole hours, so a date is    *)
(* createdAt \div 24 and timedelta(days=n) is n dates.                     *)
(***************************************************************************)
EXTENDS Integers, Sequences, FiniteSets, TLC

VARIABLES
  pc,          \* the statement the run is at
  secrets,     \* whether st.secrets holds every DB_* key load_data reads
  db_up,       \* whether the MySQL server answers
  table,       \* cpl_api_logs as the query returns it (createdAt DESC)
  df,          \* the module-level dataframe, a sequence of rows
  exc,         \* the exception that ended the run, "" while there is none
  preset,      \* the selectbox value
  start,       \* first date kept by the filter
  end,         \* last date kept by the filter
  total,       \* len(df)
  success,     \* (df["Status"] == "Success").sum()
  failure,     \* (df["Status"] == "Failure").sum()
  nodata,      \* (df["Status"] == "No Data").sum()
  rate,        \* overall success rate, in tenths of a percent
  health,      \* the banner
  s,           \* tab1's per-apiName frame, rows in index order
  cards,       \* the cards api_card rendered, in rendering order
  breaches,    \* tab2's rows of s under the SLA
  counts,      \* per funnel stage: len(d) and the per-status sums
  rows         \* tab5's funnel rows

vars == <<pc, secrets, db_up, table, df, exc, preset, start, end, total,
          success, failure, nodata, rate, health, s, cards, breaches,
          counts, rows>>

-----------------------------------------------------------------------------
(* Python values.  Every value carries its type in t, so that two values   *)
(* of different types are never compared field by field.                   *)

PyNone == [t |-> "NoneType"]

PyBool(b) == [t |-> "bool", b |-> b]

PyInt(n) == [t |-> "int", n |-> n]

PyStr(x) == [t |-> "str", s |-> x]

PyList(l) == [t |-> "list", l |-> l]

PyDict(d) == [t |-> "dict", d |-> d]

EmptyDict == [k \in {} |-> PyNone]

(* The outcome of evaluating an expression: a value, or an exception.      *)
Returned(v) == [raised |-> FALSE, value |-> v]

Raised(e) == [raised |-> TRUE, exc |-> e]

(* dict.get(key, default) *)
get(d, key, default) == IF key \in DOMAIN d THEN d[key] ELSE default

(* obj.get(key, default) on any object: only a dict has the method.        *)
dot_get(obj, key, default) ==
  IF obj.t = "dict" THEN Returned(get(obj.d, key, default))
  ELSE Raised("AttributeError")

(* x is False *)
is_False(x) == x.t = "bool" /\ x.b = FALSE

(* bool(x), as "not x" uses it *)
truthy(x) ==
  CASE x.t = "NoneType" -> FALSE
    [] x.t = "bool" -> x.b
    [] x.t = "int" -> x.n # 0
    [] x.t = "str" -> x.s # ""
    [] x.t = "list" -> Len(x.l) > 0
    [] x.t = "dict" -> DOMAIN x.d # {}

(* str(x), on the values a message field takes here *)
str(x) ==
  CASE x.t = "str" -> x.s
    [] x.t = "NoneType" -> "None"
    [] x.t = "bool" -> IF x.b THEN "True" ELSE "False"
    [] x.t = "int" /\ x.n = 404 -> "404"
    [] x.t = "int" /\ x.n = 123 -> "123"
    [] x.t = "int" /\ x.n = 1 -> "1"
    [] x.t = "int" /\ x.n = 0 -> "0"

(* x == "literal" *)
eq_str(x, lit) == x.t = "str" /\ x.s = lit

-----------------------------------------------------------------------------
(* The response texts of the model and what json.loads makes of each.      *)

ResponseTexts ==
  { "",
    "not json",
    "{\"status\": fal",
    "null",
    "123",
    "[1]",
    "\"No Record Found\"",
    "false",
    "{}",
    "{\"data\": null}",
    "{\"data\": {}}",
    "{\"data\": {\"x\": 1}}",
    "{\"data\": []}",
    "{\"data\": \"x\"}",
    "{\"data\": {\"data\": null}}",
    "{\"data\": {\"data\": {}}}",
    "{\"data\": {\"data\": {\"message\": \"No Record Found\"}}}",
    "{\"data\": {\"data\": {\"message\": \"OK\"}}}",
    "{\"data\": {\"data\": \"No Record Found\"}}",
    "{\"data\": {\"message\": \"No Record Found\"}}",
    "{\"status\": true}",
    "{\"status\": true, \"data\": null}",
    "{\"status\": true, \"data\": {}}",
    "{\"status\": true, \"data\": {\"x\": 1}}",
    "{\"status\": true, \"data\": []}",
    "{\"status\": true, \"data\": \"x\"}",
    "{\"status\": true, \"data\": {\"data\": null}}",
    "{\"status\": true, \"data\": {\"data\": {}}}",
    "{\"status\": true, \"data\": {\"data\": {\"message\": \"No Record Found\"}}}",
    "{\"status\": true, \"data\": {\"data\": {\"message\": \"OK\"}}}",
    "{\"status\": true, \"data\": {\"data\": \"No Record Found\"}}",
    "{\"status\": true, \"data\": {\"message\": \"No Record Found\"}}",
    "{\"status\": null}",
    "{\"status\": null, \"data\": {\"x\": 1}}",
    "{\"status\": 0}",
    "{\"status\": 0, \"data\": {\"x\": 1}}",
    "{\"status\": false}",
    "{\"status\": false, \"data\": null}",
    "{\"status\": false, \"data\": {\"data\": {\"message\": \"No Record Found\"}}}",
    "{\"status\": false, \"message\": \"Invalid PAN\"}",
    "{\"status\": false, \"message\": \"Invalid PAN\", \"data\": null}",
    "{\"status\": false, \"message\": \"Invalid PAN\", \"data\": {\"data\": {\"message\": \"No Record Found\"}}}",
    "{\"status\": false, \"message\": null}",
    "{\"status\": false, \"message\": null, \"data\": null}",
    "{\"status\": false, \"message\": null, \"data\": {\"data\": {\"message\": \"No Record Found\"}}}",
    "{\"status\": false, \"message\": 404}",
    "{\"status\": false, \"message\": 404, \"data\": null}",
    "{\"status\": false, \"message\": 404, \"data\": {\"data\": {\"message\": \"No Record Found\"}}}" }

json_loads(text) ==
  CASE text = ""
         -> Raised("JSONDecodeError")
    [] text = "not json"
         -> Raised("JSONDecodeError")
    [] text = "{\"status\": fal"
         -> Raised("JSONDecodeError")
    [] text = "null"
         -> Returned(PyNone)
    [] text = "123"
         -> Returned(PyInt(123))
    [] text = "[1]"
         -> Returned(PyList(<<PyInt(1)>>))
    [] text = "\"No Record Found\""
         -> Returned(PyStr("No Record Found"))
    [] text = "false"
         -> Returned(PyBool(FALSE))
    [] text = "{}"
         -> Returned(PyDict(EmptyDict))
    [] text = "{\"data\": null}"
         -> Returned(PyDict([data |-> PyNone]))
    [] text = "{\"data\": {}}"
         -> Returned(PyDict([data |-> PyDict(EmptyDict)]))
    [] text = "{\"data\": {\"x\": 1}}"
         -> Returned(PyDict([data |-> PyDict([x |-> PyInt(1)])]))
    [] text = "{\"data\": []}"
         -> Returned(PyDict([data |-> PyList(<<>>)]))
    [] text = "{\"data\": \"x\"}"
         -> Returned(PyDict([data |-> PyStr("x")]))
    [] text = "{\"data\": {\"data\": null}}"
         -> Returned(PyDict([data |-> PyDict([data |-> PyNone])]))
    [] text = "{\"data\": {\"data\": {}}}"
         -> Returned(PyDict([data |-> PyDict([data |-> PyDict(EmptyDict)])]))
    [] text = "{\"data\": {\"data\": {\"message\": \"No Record Found\"}}}"
         -> Returned(PyDict([data |-> PyDict([data |-> PyDict([message |-> PyStr("No Record Found")])])]))
    [] text = "{\"data\": {\"data\": {\"message\": \"OK\"}}}"
         -> Returned(PyDict([data |-> PyDict([data |-> PyDict([message |-> PyStr("OK")])])]))
    [] text = "{\"data\": {\"data\": \"No Record Found\"}}"
         -> Returned(PyDict([data |-> PyDict([data |-> PyStr("No Record Found")])]))
    [] text = "{\"data\": {\"message\": \"No Record Found\"}}"
         -> Returned(PyDict([data |-> PyDict([message |-> PyStr("No Record Found")])]))
    [] text = "{\"status\": true}"
         -> Returned(PyDict([status |-> PyBool(TRUE)]))
    [] text = "{\"status\": true, \"data\": null}"
         -> Returned(PyDict([status |-> PyBool(TRUE), data |-> PyNone]))
    [] text = "{\"status\": true, \"data\": {}}"
         -> Returned(PyDict([status |-> PyBool(TRUE), data |-> PyDict(EmptyDict)]))
    [] text = "{\"status\": true, \"data\": {\"x\": 1}}"
         -> Returned(PyDict([status |-> PyBool(TRUE), data |-> PyDict([x |-> PyInt(1)])]))
    [] text = "{\"status\": true, \"data\": []}"
         -> Returned(PyDict([status |-> PyBool(TRUE), data |-> PyList(<<>>)]))
    [] text = "{\"status\": true, \"data\": \"x\"}"
         -> Returned(PyDict([status |-> PyBool(TRUE), data |-> PyStr("x")]))
    [] text = "{\"status\": true, \"data\": {\"data\": null}}"
         -> Returned(PyDict([status |-> PyBool(TRUE), data |-> PyDict([data |-> PyNone])]))
    [] text = "{\"status\": true, \"data\": {\"data\": {}}}"
         -> Returned(PyDict([status |-> PyBool(TRUE), data |-> PyDict([data |-> PyDict(EmptyDict)])]))
    [] text = "{\"status\": true, \"data\": {\"data\": {\"message\": \"No Record Found\"}}}"
         -> Returned(PyDict([status |-> PyBool(TRUE), data |-> PyDict([data |-> PyDict([message |-> PyStr("No Record Found")])])]))
    [] text = "{\"status\": true, \"data\": {\"data\": {\"message\": \"OK\"}}}"
         -> Returned(PyDict([status |-> PyBool(TRUE), data |-> PyDict([data |-> PyDict([message |-> PyStr("OK")])])]))
    [] text = "{\"status\": true, \"data\": {\"data\": \"No Record Found\"}}"
         -> Returned(PyDict([status |-> PyBool(TRUE), data |-> PyDict([data |-> PyStr("No Record Found")])]))
    [] text = "{\"status\": true, \"data\": {\"message\": \"No Record Found\"}}"
         -> Returned(PyDict([status |-> PyBool(TRUE), data |-> PyDict([message |-> PyStr("No Record Found")])]))
    [] text = "{\"status\": null}"
         -> Returned(PyDict([status |-> PyNone]))
    [] text = "{\"status\": null, \"data\": {\"x\": 1}}"
         -> Returned(PyDict([status |-> PyNone, data |-> PyDict([x |-> PyInt(1)])]))
    [] text = "{\"status\": 0}"
         -> Returned(PyDict([status |-> PyInt(0)]))
    [] text = "{\"status\": 0, \"data\": {\"x\": 1}}"
         -> Returned(PyDict([status |-> PyInt(0), data |-> PyDict([x |-> PyInt(1)])]))
    [] text = "{\"status\": false}"
         -> Returned(PyDict([status |-> PyBool(FALSE)]))
    [] text = "{\"status\": false, \"data\": null}"
         -> Returned(PyDict([status |-> PyBool(FALSE), data |-> PyNone]))
    [] text = "{\"status\": false, \"data\": {\"data\": {\"message\": \"No Record Found\"}}}"
         -> Returned(PyDict([status |-> PyBool(FALSE), data |-> PyDict([data |-> PyDict([message |-> PyStr("No Record Found")])])]))
    [] text = "{\"status\": false, \"message\": \"Invalid PAN\"}"
         -> Returned(PyDict([status |-> PyBool(FALSE), message |-> PyStr("Invalid PAN")]))
    [] text = "{\"status\": false, \"message\": \"Invalid PAN\", \"data\": null}"
         -> Returned(PyDict([status |-> PyBool(FALSE), message |-> PyStr("Invalid PAN"), data |-> PyNone]))
    [] text = "{\"status\": false, \"message\": \"Invalid PAN\", \"data\": {\"data\": {\"message\": \"No Record Found\"}}}"
         -> Returned(PyDict([status |-> PyBool(FALSE), message |-> PyStr("Invalid PAN"), data |-> PyDict([data |-> PyDict([message |-> PyStr("No Record Found")])])]))
    [] text = "{\"status\": false, \"message\": null}"
         -> Returned(PyDict([status |-> PyBool(FALSE), message |-> PyNone]))
    [] text = "{\"status\": false, \"message\": null, \"data\": null}"
         -> Returned(PyDict([status |-> PyBool(FALSE), message |-> PyNone, data |-> PyNone]))
    [] text = "{\"status\": false, \"message\": null, \"data\": {\"data\": {\"message\": \"No Record Found\"}}}"
         -> Returned(PyDict([status |-> PyBool(FALSE), message |-> PyNone, data |-> PyDict([data |-> PyDict([message |-> PyStr("No Record Found")])])]))
    [] text = "{\"status\": false, \"message\": 404}"
         -> Returned(PyDict([status |-> PyBool(FALSE), message |-> PyInt(404)]))
    [] text = "{\"status\": false, \"message\": 404, \"data\": null}"
         -> Returned(PyDict([status |-> PyBool(FALSE), message |-> PyInt(404), data |-> PyNone]))
    [] text = "{\"status\": false, \"message\": 404, \"data\": {\"data\": {\"message\": \"No Record Found\"}}}"
         -> Returned(PyDict([status |-> PyBool(FALSE), message |-> PyInt(404), data |-> PyDict([data |-> PyDict([message |-> PyStr("No Record Found")])])]))
    [] OTHER -> Raised("JSONDecodeError")

-----------------------------------------------------------------------------
(* enrich(df): parse classifies one row.                                   *)

(* The vehicleDetails lookup r.get("data", {}).get("data", {}).get("message"):
   each .get is a method call on whatever the previous one returned.       *)
vehicle_msg(r) ==
  LET a == dot_get(r, "data", PyDict(EmptyDict)) IN
  IF a.raised THEN a
  ELSE LET b == dot_get(a.value, "data", PyDict(EmptyDict)) IN
       IF b.raised THEN b
       ELSE dot_get(b.value, "message", PyNone)

(* The rules of parse once r is bound, with the status rule after the
   endpoint rules: the order a misplaced "if" would give.                  *)
classify_endpoint_first(apiName, r) ==
  LET st == dot_get(r, "status", PyNone)
      data == dot_get(r, "data", PyNone)
      msg == vehicle_msg(r)
  IN
  IF st.raised THEN st
  ELSE IF apiName = "mobileDetails" /\ ~truthy(data.value)
    THEN Returned(<<"No Data", "Customer Not Found">>)
  ELSE IF apiName = "vehicleDetails" /\ msg.raised THEN msg
  ELSE IF apiName = "vehicleDetails" /\ eq_str(msg.value, "No Record Found")
    THEN Returned(<<"No Data", "Vehicle Not Found">>)
  ELSE IF is_False(st.value)
    THEN Returned(<<"Failure",
                    str(get(r.d, "message", PyStr("Technical Error")))>>)
  ELSE Returned(<<"Success", "-">>)

(* Lines 127-138: the rules of parse once r is bound, first match wins.    *)
classify(apiName, r) ==
  LET st == dot_get(r, "status", PyNone) IN
  IF st.raised THEN st
  ELSE IF is_False(st.value)
    THEN Returned(<<"Failure",
                    str(get(r.d, "message", PyStr("Technical Error")))>>)
  ELSE IF apiName = "mobileDetails"
          /\ ~truthy(get(r.d, "data", PyNone))
    THEN Returned(<<"No Data", "Customer Not Found">>)
  ELSE IF apiName = "vehicleDetails"
    THEN LET msg == vehicle_msg(r) IN
         IF msg.raised THEN msg
         ELSE IF eq_str(msg.value, "No Record Found")
           THEN Returned(<<"No Data", "Vehicle Not Found">>)
         ELSE Returned(<<"Success", "-">>)
  ELSE Returned(<<"Success", "-">>)

(* Line 126: a str response is decoded, anything else becomes {}.          *)
bind_r(response) ==
  IF response.t = "str" THEN json_loads(response.s)
  ELSE Returned(PyDict(EmptyDict))

(* The body of parse's try block. *)
parse_try(row) ==
  LET r == bind_r(row.response) IN
  IF r.raised THEN r ELSE classify(row.apiName, r.value)

(* parse with the exception let through. *)
parse_no_except(row) == parse_try(row)

(* parse with a status of its own for a caught exception. *)
parse_error_status(row) ==
  IF parse_try(row).raised THEN Returned(<<"Error", "Parse Error">>)
  ELSE parse_try(row)

(* parse(row): the try block, and the bare except around it.               *)
parse(row) ==
  IF parse_try(row).raised THEN Returned(<<"Failure", "Parse Error">>)
  ELSE parse_try(row)

(* A row of df with the two columns enrich adds. *)
with_status(row, st) ==
  [apiName |-> row.apiName, createdAt |-> row.createdAt,
   response |-> row.response, Status |-> st[1], Failure_Reason |-> st[2]]

(* Line 145, enrich(df).  df.apply calls parse on every row and an
   exception out of parse ends the run.  On a frame with no row apply
   returns a copy of the frame, whose columns are not the two assigned,
   and the assignment raises ValueError.                                   *)
Enrich ==
  /\ pc = "enrich"
  /\ IF df = <<>>
       THEN /\ pc' = "crashed"
            /\ exc' = "ValueError"
            /\ df' = df
     ELSE IF \E i \in 1..Len(df) : parse(df[i]).raised
       THEN /\ pc' = "crashed"
            /\ exc' = (LET i == CHOOSE j \in 1..Len(df) :
                                   /\ parse(df[j]).raised
                                   /\ \A k \in 1..(j-1) : ~parse(df[k]).raised
                       IN parse(df[i]).exc)
            /\ df' = df
     ELSE /\ pc' = "sidebar"
          /\ exc' = exc
          /\ df' = [i \in 1..Len(df) |-> with_status(df[i], parse(df[i]).value)]
  /\ UNCHANGED <<secrets, db_up, table, preset, start, end, total, success,
                 failure, nodata, rate, health, s, cards, breaches, counts,
                 rows>>

-----------------------------------------------------------------------------
(* Bounds of the model. *)

MaxRows == 2

MaxTotal == 33

(* Program constants. *)

LIMIT == 50000

CRITICAL_BELOW == 90

DEGRADED_BELOW == 97

-----------------------------------------------------------------------------
(* Helpers over dataframes. *)

Min2(a, b) == IF a < b THEN a ELSE b

(* createdAt.dt.date *)
date(createdAt) == createdAt \div 24

(* The rows of frame that satisfy a test, as a set of positions. *)
where_api(frame, api) == {i \in 1..Len(frame) : frame[i].apiName = api}

(* (d["Status"] == status).sum() over the rows of api *)
count_status(frame, api, status) ==
  Cardinality({i \in where_api(frame, api) : frame[i].Status = status})

(* (df["Status"] == status).sum() *)
count_all(frame, status) ==
  Cardinality({i \in 1..Len(frame) : frame[i].Status = status})

max_createdAt(frame) ==
  CHOOSE m \in {frame[i].createdAt : i \in 1..Len(frame)} :
    \A i \in 1..Len(frame) : frame[i].createdAt <= m

min_createdAt(frame) ==
  CHOOSE m \in {frame[i].createdAt : i \in 1..Len(frame)} :
    \A i \in 1..Len(frame) : frame[i].createdAt >= m

(* round(n / d * 100, 1) with the one decimal kept in tenths: the nearest
   tenth, a tie going to the even one.                                     *)
round_pct(n, d) ==
  LET q == (n * 1000) \div d
      r == (n * 1000) % d
  IN IF 2 * r < d THEN q
     ELSE IF 2 * r > d THEN q + 1
     ELSE IF q % 2 = 0 THEN q ELSE q + 1

-----------------------------------------------------------------------------
(* Line 145, load_data().  st.secrets[...] raises KeyError on a key that is
   not set and read_sql raises when the server does not answer; nothing
   around the call catches either.  st.cache_data only spares a second
   query within 120 s and is left out of a single run.                     *)
LoadData ==
  /\ pc = "load"
  /\ IF ~secrets
       THEN /\ pc' = "crashed" /\ exc' = "KeyError" /\ df' = df
     ELSE IF ~db_up
       THEN /\ pc' = "crashed" /\ exc' = "OperationalError" /\ df' = df
     ELSE /\ pc' = "enrich" /\ exc' = exc
          /\ df' = SubSeq(table, 1, Min2(Len(table), LIMIT))
  /\ UNCHANGED <<secrets, db_up, table, preset, start, end, total, success,
                 failure, nodata, rate, health, s, cards, breaches, counts,
                 rows>>

-----------------------------------------------------------------------------
(* Lines 150-181, the sidebar: the selectbox, the date_input and the
   filter.  p is the range the user picked; c1..c2 is the custom range,
   which the widget keeps between min_d and max_d.                         *)

Presets == {"Last 24 Hours", "Last 7 Days", "Last 30 Days", "Custom"}

(* Lines 169-176 *)
window(p, max_d, c1, c2) ==
  CASE p = "Last 24 Hours" -> <<max_d - 1, max_d>>
    [] p = "Last 7 Days" -> <<max_d - 7, max_d>>
    [] p = "Last 30 Days" -> <<max_d - 30, max_d>>
    [] OTHER -> <<c1, c2>>

(* Lines 178-181 *)
in_window(row, lo, hi) ==
  date(row.createdAt) >= lo /\ date(row.createdAt) <= hi

(* The dates the custom range is picked from: the dates of the model's
   rows and one date, day 10, on which the model has no row.                *)
PickableDates == {0, 10, 24, 30, 31}

Sidebar ==
  /\ pc = "sidebar"
  /\ LET max_d == date(max_createdAt(df))
         min_d == date(min_createdAt(df))
     IN \E p \in Presets :
        \E c1, c2 \in (IF p = "Custom" THEN PickableDates ELSE {max_d}) :
          /\ min_d <= c1 /\ c1 <= c2 /\ c2 <= max_d
          /\ preset' = p
          /\ start' = window(p, max_d, c1, c2)[1]
          /\ end' = window(p, max_d, c1, c2)[2]
          /\ df' = SelectSeq(df, LAMBDA row : in_window(row, start', end'))
  /\ pc' = "exec_counts"
  /\ UNCHANGED <<secrets, db_up, table, exc, total, success, failure, nodata,
                 rate, health, s, cards, breaches, counts, rows>>

-----------------------------------------------------------------------------
(* Lines 186-189 *)
ExecCounts ==
  /\ pc = "exec_counts"
  /\ total' = Len(df)
  /\ success' = count_all(df, "Success")
  /\ failure' = count_all(df, "Failure")
  /\ nodata' = count_all(df, "No Data")
  /\ pc' = "exec_rate"
  /\ UNCHANGED <<secrets, db_up, table, df, exc, preset, start, end, rate,
                 health, s, cards, breaches, counts, rows>>

(* Line 193, on the rate in tenths *)
banner(r) ==
  IF r < CRITICAL_BELOW * 10 THEN "CRITICAL"
  ELSE IF r < DEGRADED_BELOW * 10 THEN "DEGRADED"
  ELSE "HEALTHY"

(* Lines 190-193 *)
ExecRate ==
  /\ pc = "exec_rate"
  /\ rate' = (IF total # 0 THEN round_pct(success, total) ELSE 0)
  /\ health' = banner(rate')
  /\ pc' = "tab1"
  /\ UNCHANGED <<secrets, db_up, table, df, exc, preset, start, end, total,
                 success, failure, nodata, s, cards, breaches, counts, rows>>

-----------------------------------------------------------------------------
(* Lines 267-279, Live Status. *)

(* The apiNames in the order groupby sorts its keys (str order). *)
ApiOrder ==
  <<"cibilDetails", "idfcCreateLoanApplicationId", "mobileDetails",
    "panDetails", "vehicleDetails">>

(* Lines 268-271: the columns of s, those unstack made of the statuses in
   df and those added because they were missing.                           *)
status_columns(frame) ==
  {frame[i].Status : i \in 1..Len(frame)} \cup {"Success", "Failure", "No Data"}

RECURSIVE sum_columns(_, _, _)
sum_columns(frame, api, cols) ==
  IF cols = {} THEN 0
  ELSE LET c == CHOOSE x \in cols : TRUE
       IN count_status(frame, api, c) + sum_columns(frame, api, cols \ {c})

(* Line 273, s.sum(axis=1) for one row *)
row_total(frame, api) == sum_columns(frame, api, status_columns(frame))

(* Lines 268-274, one row of s *)
summary_row(frame, api) ==
  [apiName |-> api,
   Success |-> count_status(frame, api, "Success"),
   Failure |-> count_status(frame, api, "Failure"),
   No_Data |-> count_status(frame, api, "No Data"),
   Total |-> row_total(frame, api),
   Success_Rate |-> round_pct(count_status(frame, api, "Success"),
                              row_total(frame, api))]

(* Line 268: one group per apiName of df, the keys sorted. *)
group_keys(frame) ==
  SelectSeq(ApiOrder, LAMBDA api : where_api(frame, api) # {})

(* Lines 233-234, the part of a card that depends on the order and rate *)
api_card(api, row) ==
  [api |-> api,
   dot |-> IF row.Success_Rate >= DEGRADED_BELOW * 10 THEN "green"
           ELSE IF row.Success_Rate >= CRITICAL_BELOW * 10 THEN "yellow"
           ELSE "red"]

Tab1 ==
  /\ pc = "tab1"
  /\ s' = [i \in 1..Len(group_keys(df)) |-> summary_row(df, group_keys(df)[i])]
  /\ cards' = [i \in 1..Len(s') |-> api_card(s'[i].apiName, s'[i])]
  /\ pc' = "tab2"
  /\ UNCHANGED <<secrets, db_up, table, df, exc, preset, start, end, total,
                 success, failure, nodata, rate, health, breaches, counts,
                 rows>>

(* Lines 284-289, Alerts *)
Tab2 ==
  /\ pc = "tab2"
  /\ breaches' = SelectSeq(s, LAMBDA row : row.Success_Rate < CRITICAL_BELOW * 10)
  /\ pc' = "tab5"
  /\ UNCHANGED <<secrets, db_up, table, df, exc, preset, start, end, total,
                 success, failure, nodata, rate, health, s, cards, counts,
                 rows>>

-----------------------------------------------------------------------------
(* Lines 317-345, Business Impact: the funnel.  The loop is taken in two
   steps: what each stage reads of df, then base and Drop %.               *)

FUNNEL ==
  << <<"mobileDetails", "Mobile Prefill">>,
     <<"panDetails", "PAN">>,
     <<"cibilDetails", "CIBIL">>,
     <<"vehicleDetails", "Vehicle">>,
     <<"idfcCreateLoanApplicationId", "Loan Creation">> >>

(* Lines 329-331 and 339-340 *)
Tab5 ==
  /\ pc = "tab5"
  /\ counts' = [i \in 1..Len(FUNNEL) |->
                 [t |-> Cardinality(where_api(df, FUNNEL[i][1])),
                  s_cnt |-> count_status(df, FUNNEL[i][1], "Success"),
                  No_Data |-> count_status(df, FUNNEL[i][1], "No Data"),
                  Failure |-> count_status(df, FUNNEL[i][1], "Failure")]]
  /\ pc' = "funnel"
  /\ UNCHANGED <<secrets, db_up, table, df, exc, preset, start, end, total,
                 success, failure, nodata, rate, health, s, cards, breaches,
                 rows>>

(* base after the stages up to i, when a base of 0 is taken for unset. *)
RECURSIVE base_first_nonzero(_, _)
base_first_nonzero(c, i) ==
  IF i = 1 THEN c[1].t
  ELSE IF base_first_nonzero(c, i - 1) # 0 THEN base_first_nonzero(c, i - 1)
  ELSE c[i].t

(* Lines 327 and 332-333: base is None before the first stage and the
   first stage sets it; "is None" is false of 0, so it never changes.      *)
base_at(c, i) == c[1].t

(* Lines 334-342 *)
funnel_row(c, i) ==
  [Stage |-> FUNNEL[i][2],
   Requests |-> c[i].t,
   Success |-> c[i].s_cnt,
   No_Data |-> c[i].No_Data,
   Failure |-> c[i].Failure,
   Drop |-> IF base_at(c, i) # 0
              THEN round_pct(c[i].t - c[i].s_cnt, base_at(c, i))
            ELSE 0]

Funnel ==
  /\ pc = "funnel"
  /\ rows' = [i \in 1..Len(FUNNEL) |-> funnel_row(counts, i)]
  /\ pc' = "done"
  /\ UNCHANGED <<secrets, db_up, table, df, exc, preset, start, end, total,
                 success, failure, nodata, rate, health, s, cards, breaches,
                 counts>>

-----------------------------------------------------------------------------
(* Classification alone: one row of any endpoint and any response.         *)

ApiNames ==
  {"mobileDetails", "panDetails", "vehicleDetails", "cibilDetails"}

(* What the response column of a row can hold: NULL, a text, or a value
   the driver already decoded.                                             *)
Responses ==
  {PyNone, PyInt(123),
   PyDict([status |-> PyBool(FALSE), message |-> PyStr("Invalid PAN")]),
   PyDict([status |-> PyBool(TRUE), data |-> PyDict([x |-> PyInt(1)])])}
  \cup {PyStr(x) : x \in ResponseTexts}

Idle ==
  /\ exc = ""
  /\ preset = "" /\ start = 0 /\ end = 0
  /\ total = 0 /\ success = 0 /\ failure = 0 /\ nodata = 0
  /\ rate = 0 /\ health = ""
  /\ s = <<>> /\ cards = <<>> /\ breaches = <<>>
  /\ counts = <<>> /\ rows = <<>>

InitParse ==
  /\ Idle
  /\ secrets = TRUE /\ db_up = TRUE
  /\ pc = "enrich"
  /\ \E a \in ApiNames, resp \in Responses :
       /\ table = <<[apiName |-> a, createdAt |-> 0, response |-> resp]>>
       /\ df = table

NextParse == Enrich

SpecParse == InitParse /\ [][NextParse]_vars
-----------------------------------------------------------------------------
(* The whole run, on small tables.                                         *)

PipelineApis == {"mobileDetails", "panDetails", "vehicleDetails"}

(* One response per outcome: a plain success, a status-false failure, and
   data null (No Data for mobileDetails, a caught exception for
   vehicleDetails).                                                        *)
PipelineResponses ==
  {PyStr("{\"status\": true, \"data\": {\"x\": 1}}"),
   PyStr("{\"status\": false, \"message\": \"Invalid PAN\"}"),
   PyStr("{\"status\": true, \"data\": null}")}

(* createdAt values, in hours: day 0 12:00, day 24 12:00, day 30 01:00 and
   day 31 23:00.                                                           *)
CreatedAts == {12, 24 * 24 + 12, 30 * 24 + 1, 31 * 24 + 23}

TableRows ==
  [apiName : PipelineApis, createdAt : CreatedAts, response : PipelineResponses]

(* The query orders by createdAt DESC. *)
Tables ==
  UNION {{tb \in [1..n -> TableRows] :
            \A i \in 1..(n - 1) : tb[i].createdAt >= tb[i + 1].createdAt}
         : n \in 0..MaxRows}

Init ==
  /\ Idle
  /\ pc = "load"
  /\ secrets \in BOOLEAN
  /\ db_up \in BOOLEAN
  /\ table \in Tables
  /\ df = <<>>

Next ==
  \/ LoadData
  \/ Enrich
  \/ Sidebar
  \/ ExecCounts
  \/ ExecRate
  \/ Tab1
  \/ Tab2
  \/ Tab5
  \/ Funnel

Spec == Init /\ [][Next]_vars

-----------------------------------------------------------------------------
(* The banner alone: lines 190-193 on any counts up to MaxTotal.           *)

InitHealth ==
  /\ pc = "exec_rate"
  /\ secrets = TRUE /\ db_up = TRUE /\ exc = ""
  /\ table = <<>> /\ df = <<>>
  /\ preset = "" /\ start = 0 /\ end = 0
  /\ success \in 0..MaxTotal
  /\ failure \in 0..MaxTotal
  /\ nodata \in 0..MaxTotal
  /\ total = success + failure + nodata
  /\ total <= MaxTotal
  /\ rate = 0 /\ health = ""
  /\ s = <<>> /\ cards = <<>> /\ breaches = <<>>
  /\ counts = <<>> /\ rows = <<>>

NextHealth == ExecRate

SpecHealth == InitHealth /\ [][NextHealth]_vars

-----------------------------------------------------------------------------
(* The funnel alone: lines 326-342 on stage counts of any size.            *)

StageCounts ==
  {[t |-> 0, s_cnt |-> 0, No_Data |-> 0, Failure |-> 0],
   [t |-> 100, s_cnt |-> 100, No_Data |-> 0, Failure |-> 0],
   [t |-> 100, s_cnt |-> 70, No_Data |-> 20, Failure |-> 10],
   [t |-> 80, s_cnt |-> 60, No_Data |-> 0, Failure |-> 20],
   [t |-> 50, s_cnt |-> 50, No_Data |-> 0, Failure |-> 0],
   [t |-> 50, s_cnt |-> 0, No_Data |-> 30, Failure |-> 20],
   [t |-> 3, s_cnt |-> 1, No_Data |-> 1, Failure |-> 1]}

InitFunnel ==
  /\ pc = "funnel"
  /\ secrets = TRUE /\ db_up = TRUE /\ exc = ""
  /\ table = <<>> /\ df = <<>>
  /\ preset = "" /\ start = 0 /\ end = 0
  /\ total = 0 /\ success = 0 /\ failure = 0 /\ nodata = 0
  /\ rate = 0 /\ health = ""
  /\ s = <<>> /\ cards = <<>> /\ breaches = <<>>
  /\ counts \in [1..Len(FUNNEL) -> StageCounts]
  /\ rows = <<>>

NextFunnel == Funnel

SpecFunnel == InitFunnel /\ [][NextFunnel]_vars

-----------------------------------------------------------------------------
(* Properties of classification, under SpecParse: the row is table[1] and,
   once enrich has run, df[1] carries its Status and Failure_Reason.       *)

Statuses == {"Success", "Failure", "No Data"}

Reasons ==
  {"-", "Parse Error", "Technical Error", "Customer Not Found",
   "Vehicle Not Found", "Invalid PAN", "None", "404"}

Classified == pc = "sidebar" /\ Len(df) = 1

(* The response is a text that decodes to a JSON object. *)
DecodesToObject(resp) ==
  /\ resp.t = "str"
  /\ ~json_loads(resp.s).raised
  /\ json_loads(resp.s).value.t = "dict"

(* The field of a document, None when the document is no object or has no
   such field.                                                             *)
field(obj, key) ==
  IF obj.t = "dict" /\ key \in DOMAIN obj.d THEN obj.d[key] ELSE PyNone

(* C1: whatever the apiName and the response, enrich ends without an
   exception and the row has exactly one status of Success, Failure and
   No Data, and a reason.                                                  *)
C1_Totality ==
  pc # "enrich" =>
    /\ pc = "sidebar"
    /\ exc = ""
    /\ \A i \in 1..Len(df) :
         /\ df[i].Status \in Statuses
         /\ df[i].Failure_Reason \in Reasons

(* A row whose try block raised, classified all the same. *)
C1_Witness ==
  /\ Classified
  /\ parse_try(table[1]).raised
  /\ df[1].Status = "Failure"
  /\ df[1].Failure_Reason = "Parse Error"

(* C2: a response that is null, empty or not decodable is (Failure,
   "Parse Error") for every apiName, and a response that is already
   structured is classified by its own fields.                             *)
C2_ParseStep ==
  Classified =>
    LET resp == table[1].response IN
    /\ (\/ resp.t = "NoneType"
        \/ (resp.t = "str" /\ json_loads(resp.s).raised))
         => /\ df[1].Status = "Failure"
            /\ df[1].Failure_Reason = "Parse Error"
    /\ (resp.t = "dict" /\ ~classify(table[1].apiName, resp).raised)
         => <<df[1].Status, df[1].Failure_Reason>>
              = classify(table[1].apiName, resp).value

(* C3: for vehicleDetails, when status is not false, the row is (No Data,
   "Vehicle Not Found") exactly when data.data.message is "No Record
   Found", and it is (Success, "-") when data or data.data is absent or
   null.                                                                   *)
C3_VehicleRule ==
  (/\ Classified
   /\ table[1].apiName = "vehicleDetails"
   /\ DecodesToObject(table[1].response)
   /\ ~is_False(field(json_loads(table[1].response.s).value, "status")))
  =>
    LET r == json_loads(table[1].response.s).value
        data == field(r, "data")
        inner == field(data, "data")
    IN
    /\ (df[1].Status = "No Data" /\ df[1].Failure_Reason = "Vehicle Not Found")
         <=> eq_str(field(inner, "message"), "No Record Found")
    /\ (data.t = "NoneType" \/ (data.t = "dict" /\ inner.t = "NoneType"))
         => (df[1].Status = "Success" /\ df[1].Failure_Reason = "-")

(* C4: for every apiName, a decoded response object whose status is the
   boolean false is a Failure, the reason being the text of its message
   field when it has one and "Technical Error" when it has none; the
   endpoint rules do not get to decide such a row.                         *)
C4_StatusFalse ==
  (/\ Classified
   /\ DecodesToObject(table[1].response)
   /\ is_False(field(json_loads(table[1].response.s).value, "status")))
  =>
    LET r == json_loads(table[1].response.s).value IN
    /\ df[1].Status = "Failure"
    /\ df[1].Failure_Reason =
         (IF "message" \in DOMAIN r.d THEN str(r.d["message"])
          ELSE "Technical Error")

(* A vehicleDetails row whose response is status false and also carries
   "No Record Found": a Failure with the response's message.               *)
C4_Witness ==
  /\ Classified
  /\ table[1].apiName = "vehicleDetails"
  /\ table[1].response = PyStr("{\"status\": false, \"message\": \"Invalid PAN\", \"data\": {\"data\": {\"message\": \"No Record Found\"}}}")
  /\ df[1].Status = "Failure"
  /\ df[1].Failure_Reason = "Invalid PAN"

-----------------------------------------------------------------------------
(* Properties of the run, under Spec. *)

AfterCounts == pc \in {"exec_rate", "tab1", "tab2", "tab5", "funnel", "done"}

AfterTab1 == pc \in {"tab2", "tab5", "funnel", "done"}

(* C5: whatever the window, each row of s has Success + Failure + No Data
   = Total, Total being the number of filtered rows of that apiName, and
   the counts of the whole window add up to total.                         *)
C5_Conservation ==
  /\ AfterCounts => success + failure + nodata = total
  /\ AfterTab1 =>
       \A i \in 1..Len(s) :
         /\ s[i].Success + s[i].Failure + s[i].No_Data = s[i].Total
         /\ s[i].Total = Cardinality(where_api(df, s[i].apiName))

(* A finished run with an endpoint of two rows of different statuses. *)
C5_Witness ==
  /\ pc = "done"
  /\ \E i \in 1..Len(s) :
       /\ s[i].Total = 2
       /\ s[i].Success = 1
       /\ s[i].No_Data + s[i].Failure = 1

(* C7: the rows of s, and the cards, come in ascending order of success
   rate, ties in ascending order of apiName.                               *)
ApiBefore(a, b) ==
  \E i, j \in 1..Len(ApiOrder) : i < j /\ ApiOrder[i] = a /\ ApiOrder[j] = b

C7_Ordering ==
  AfterTab1 =>
    /\ \A i, j \in 1..Len(s) :
         i < j => \/ s[i].Success_Rate < s[j].Success_Rate
                  \/ /\ s[i].Success_Rate = s[j].Success_Rate
                     /\ ApiBefore(s[i].apiName, s[j].apiName)
    /\ Len(cards) = Len(s)
    /\ \A i \in 1..Len(s) : cards[i].api = s[i].apiName

(* C8: under a preset lookback of 24 hours, 7 days or 30 days the filter
   keeps exactly the rows whose createdAt is no more than that long before
   max(createdAt), in their order.                                         *)
lookback_hours(p) ==
  CASE p = "Last 24 Hours" -> 24
    [] p = "Last 7 Days" -> 7 * 24
    [] p = "Last 30 Days" -> 30 * 24

input_columns(frame) ==
  [i \in 1..Len(frame) |->
     [apiName |-> frame[i].apiName, createdAt |-> frame[i].createdAt,
      response |-> frame[i].response]]

C8_Lookback ==
  (AfterCounts /\ preset # "Custom") =>
    input_columns(df) =
      SelectSeq(table,
                LAMBDA row : row.createdAt >=
                               max_createdAt(table) - lookback_hours(preset))

(* C9: when the fetch fails no exception escapes: the run goes on with an
   empty record set and ends with zero totals and a rate of 0.             *)
C9_FetchFailure ==
  (~secrets \/ ~db_up) =>
    /\ exc = ""
    /\ pc # "crashed"
    /\ pc # "load" => df = <<>>
    /\ pc = "done" => (total = 0 /\ rate = 0)

-----------------------------------------------------------------------------
(* The banner, under SpecHealth. *)

(* C6: the banner is HEALTHY when success / total * 100 is at least 97,
   DEGRADED when it is at least 90 and below 97, CRITICAL below 90.        *)
C6_Thresholds ==
  (pc = "tab1" /\ total > 0) =>
    health = (IF success * 100 >= DEGRADED_BELOW * total THEN "HEALTHY"
              ELSE IF success * 100 >= CRITICAL_BELOW * total THEN "DEGRADED"
              ELSE "CRITICAL")

-----------------------------------------------------------------------------
(* The funnel, under SpecFunnel. *)

Abs(x) == IF x < 0 THEN -x ELSE x

(* d, in tenths, is a tenth nearest to n / b * 100 *)
NearestTenth(d, n, b) == 2 * Abs(n * 1000 - d * b) <= b

(* C10 as the code has it: the Drop % of every stage is (stage total -
   stage success) / first stage total * 100 to one decimal, the first
   stage's total and no other stage's being the denominator, and it is 0
   when the first stage has no request.                                    *)
C10_FunnelDenominator ==
  pc = "done" =>
    \A i \in 1..Len(FUNNEL) :
      /\ rows[i].Requests = counts[i].t
      /\ rows[i].Success = counts[i].s_cnt
      /\ IF counts[1].t # 0
           THEN NearestTenth(rows[i].Drop, counts[i].t - counts[i].s_cnt,
                             counts[1].t)
         ELSE rows[i].Drop = 0

(* Stage totals 100, 80, 50 with no success at stage 3: Drop % is 50.0.    *)
C10_Witness ==
  /\ pc = "done"
  /\ counts[1].t = 100 /\ counts[2].t = 80 /\ counts[3].t = 50
  /\ counts[3].s_cnt = 0
  /\ rows[3].Drop = 500

(* C10 as stated: the same formula, and Drop % 50.0 at stage 3 whenever the
   stage totals are 100, 80, 50.                                           *)
C10_Original ==
  pc = "done" =>
    /\ \A i \in 1..Len(FUNNEL) :
         counts[1].t # 0 =>
           NearestTenth(rows[i].Drop, counts[i].t - counts[i].s_cnt,
                        counts[1].t)
    /\ (counts[1].t = 100 /\ counts[2].t = 80 /\ counts[3].t = 50)
         => rows[3].Drop = 500

====
